---- MODULE Spec2Model ----
(***************************************************************************)
(* CampusKart backend: the listing registry (product routes, MongoStorage,  *)
(* the zod/mongoose product schemas) and the session cart routes.           *)
(*                                                                          *)
(* Conventions of the model                                                 *)
(*  - a JavaScript object is a function whose DOMAIN is its set of keys;    *)
(*    a missing key is a key outside the DOMAIN (JS undefined);             *)
(*  - a Date is the one-element sequence <<t>>, null is <<>>;               *)
(*  - an ObjectId is a positive integer, assigned in insertion order; 0 is  *)
(*    a string that is not a well-formed ObjectId;                          *)
(*  - req.body comes from express.json(), so it never holds a Date.         *)
(*  - updatedAt (mongoose timestamps) is never read by the code and is left *)
(*    out of the documents.                                                 *)
(*  - res and cres hold the last response of a listing route and of a cart  *)
(*    route; cartFor and addCalls are history variables (addCalls counts    *)
(*    the calls of the sequential cart specification).                      *)
(*  - calls holds the cart requests in flight when handlers interleave at   *)
(*    their awaits.                                                         *)
(***************************************************************************)
EXTENDS Integers, Sequences, FiniteSets, TLC

\* ------------------------------------------------------------------ bounds
MaxProducts == 2
MaxTime == 1

MaxListed == 3
MaxCarts == 2
MaxAdds == 2
MaxCallers == 2

VARIABLES products, now, res, mongoose, carts, cartFor, addCalls, cres, calls

listingVars == <<products, now, res>>

cartVars == <<mongoose, carts, cartFor, addCalls, cres, calls>>

vars == <<products, now, res, mongoose, carts, cartFor, addCalls, cres, calls>>

\* ------------------------------------------------------------- JS helpers
Restrict(f, K) == [k \in K |-> f[k]]

\* { ...a, ...b } and mongoose's $set of the keys of b
Assign(a, b) == [k \in (DOMAIN a) \cup (DOMAIN b) |-> IF k \in DOMAIN b THEN b[k] ELSE a[k]]

EmptyObj == [k \in {} |-> ""]

NullDate == <<>>

\* ------------------------------------------------ shared/schema.js (zod)
Categories == {"textbooks", "electronics", "dorm-items", "supplies", "clothing", "furniture", "other"}

ContactMethods == {"email", "phone", "whatsapp", "telegram"}

Conditions == {"new", "like-new", "good", "fair", "poor"}

Statuses == {"available", "sold"}

RequiredKeys == {"title", "description", "price", "category", "sellerName", "contactMethod", "contactDetails"}

DefaultedKeys == {"images", "condition", "status"}

ShapeKeys == RequiredKeys \cup DefaultedKeys \cup {"secretKey", "soldAt"}

\* the .default(...) of the three optional-with-default fields
DefaultOf(k) == CASE k = "images" -> <<>>
                  [] k = "condition" -> "good"
                  [] k = "status" -> "available"

\* the per-field checks of insertProductSchema, applied to a JSON value
FieldValid(k, v) == CASE k \in {"title", "description", "sellerName", "contactDetails"} -> v # ""
                      [] k = "price" -> v >= 0
                      [] k = "category" -> v \in Categories
                      [] k = "contactMethod" -> v \in ContactMethods
                      [] k = "condition" -> v \in Conditions
                      [] k = "images" -> TRUE
                      [] k = "status" -> v \in Statuses
                      [] k = "secretKey" -> TRUE
                      [] k = "soldAt" -> FALSE

\* insertProductSchema.parse(body): unknown keys stripped, defaults filled in
insertProductSchema(body) ==
    LET present == (DOMAIN body) \cap ShapeKeys
        ok == /\ RequiredKeys \subseteq DOMAIN body
              /\ \A k \in present : FieldValid(k, body[k])
        out == present \cup DefaultedKeys
    IN  [success |-> ok,
         data |-> IF ok THEN [k \in out |-> IF k \in present THEN body[k] ELSE DefaultOf(k)]
                        ELSE EmptyObj]

\* insertProductSchema.partial().parse(body): every key optional; an absent
\* key stays absent (zod 3: the optional wrapper answers before the default
\* does), a present key is checked as in the full schema
insertProductSchemaPartial(body) ==
    LET present == (DOMAIN body) \cap ShapeKeys
        ok == \A k \in present : FieldValid(k, body[k])
    IN  [success |-> ok,
         data |-> IF ok THEN Restrict(body, present) ELSE EmptyObj]

\* the defaults of the mongoose productSchema
productSchemaDefaults == [images |-> <<>>, condition |-> "good", status |-> "available", soldAt |-> NullDate]

\* ------------------------------------------------------------- storage.js
isValid(id) == id >= 1

Exists(id) == id \in DOMAIN products

\* a projection that forgets to strip the secret
toProductWithSecret(doc) ==
    [id |-> doc.id, title |-> doc.title, description |-> doc.description, price |-> doc.price,
     category |-> doc.category, images |-> doc.images, sellerName |-> doc.sellerName,
     contactMethod |-> doc.contactMethod, contactDetails |-> doc.contactDetails,
     condition |-> doc.condition, createdAt |-> doc.createdAt, status |-> doc.status,
     soldAt |-> doc.soldAt, secretKey |-> doc.secretKey]

toProduct(doc) ==
    [id |-> doc.id,
     title |-> doc.title,
     description |-> doc.description,
     price |-> doc.price,
     category |-> doc.category,
     images |-> doc.images,
     sellerName |-> doc.sellerName,
     contactMethod |-> doc.contactMethod,
     contactDetails |-> doc.contactDetails,
     condition |-> doc.condition,
     createdAt |-> doc.createdAt,
     status |-> IF doc.status = "" THEN "available" ELSE doc.status,
     soldAt |-> doc.soldAt]

\* the document createProduct saves
newProductDoc(insertProduct, secretKey, id, t) ==
    Assign(Assign(productSchemaDefaults, insertProduct),
           [images |-> IF "images" \in DOMAIN insertProduct THEN insertProduct.images ELSE <<>>,
            secretKey |-> secretKey,
            status |-> "available",
            id |-> id,
            createdAt |-> <<t>>])

\* what createProduct returns: the projection plus the secret
createProductResult(doc, secretKey) == Assign(toProduct(doc), [secretKey |-> secretKey])

\* .sort({ status: 1, createdAt: -1 }): a precedes b, or they tie
StatusRank(s) == IF s = "available" THEN 0 ELSE 1

\* .sort({ createdAt: -1 }) of the delete-key generation
SortLeqCreatedAtOnly(a, b) == a.createdAt[1] >= b.createdAt[1]

SortLeq(a, b) == \/ StatusRank(a.status) < StatusRank(b.status)
                 \/ a.status = b.status /\ a.createdAt[1] >= b.createdAt[1]

\* the orders find(filter).sort(...) may return the matching ids in
SortedIds(ids) ==
    {s \in [1..Cardinality(ids) -> ids] :
        /\ \A i, j \in DOMAIN s : i # j => s[i] # s[j]
        /\ \A i, j \in DOMAIN s : i < j => SortLeq(products[s[i]], products[s[j]])}

getAllProducts == {[i \in DOMAIN s |-> toProduct(products[s[i]])] : s \in SortedIds(DOMAIN products)}

getProductsByCategory(category) ==
    {[i \in DOMAIN s |-> toProduct(products[s[i]])] :
        s \in SortedIds({id \in DOMAIN products : products[id].category = category})}

\* findByIdAndUpdate(id, { ...updateData }, { new: true }) and its projection
updateProduct(id, updateData) ==
    IF isValid(id) /\ Exists(id)
    THEN LET updated == Assign(products[id], updateData)
         IN  [found |-> TRUE, product |-> toProduct(updated), products |-> [products EXCEPT ![id] = updated]]
    ELSE [found |-> FALSE, product |-> EmptyObj, products |-> products]

\* the delete-key generation: findByIdAndDelete(id), whatever the key
deleteProductById(id, secretKey) ==
    IF isValid(id) /\ Exists(id)
    THEN [deleted |-> TRUE, products |-> Restrict(products, (DOMAIN products) \ {id})]
    ELSE [deleted |-> FALSE, products |-> products]

\* the current generation: deletion is disabled
deleteProduct(id, secretKey) == [deleted |-> FALSE, products |-> products]

\* ------------------------------------------------------------ request data
\* crypto.randomBytes(6).toString("hex"): a fresh token for each listing
KeyPool == <<"k1", "k2", "k3", "k4", "k5">>

randomBytesHex(id) == KeyPool[id]

\* a fresh ObjectId
NewObjectId == IF DOMAIN products = {} THEN 1
               ELSE 1 + CHOOSE m \in DOMAIN products : \A n \in DOMAIN products : n <= m

RequestIds == 0..(MaxProducts + 1)

ValidBody(category) == [title |-> "t1", description |-> "d", price |-> 5, category |-> category,
                        sellerName |-> "s", contactMethod |-> "email", contactDetails |-> "c"]

JsonDate == "2025-01-01T00:00:00Z"

CreateBodies ==
    {ValidBody(c) : c \in {"textbooks", "other"}}
    \cup {Assign(ValidBody("other"), [status |-> "sold"]),
          Assign(ValidBody("other"), [status |-> "sold", secretKey |-> "x"]),
          Assign(ValidBody("other"), [soldAt |-> JsonDate]),
          Assign(ValidBody("other"), [price |-> -1]),
          Assign(ValidBody("other"), [title |-> ""]),
          ValidBody("vehicles"),
          Restrict(ValidBody("other"), RequiredKeys \ {"title"})}

PatchBodies ==
    {EmptyObj, [category |-> "textbooks"], [category |-> "other"],
     [status |-> "available"], [status |-> "sold"], [status |-> "deleted"],
     [secretKey |-> "x"], [soldAt |-> JsonDate], [title |-> ""],
     [category |-> "textbooks", status |-> "sold"]}

SuppliedSecrets == {"", "k1", "x"}

SecretBodies == {EmptyObj} \cup {[secretKey |-> s] : s \in SuppliedSecrets}

QueryCategories == {"", "all", "textbooks", "vehicles"}

Message(m) == [message |-> m]

\* what a request was and how it was answered; fault tells that a store call
\* of the request was rejected by the database
Response(op, id, arg, code, body) ==
    [op |-> op, id |-> id, arg |-> arg, code |-> code, body |-> body, fault |-> FALSE]

Failed(op, id, arg, code, body) == [Response(op, id, arg, code, body) EXCEPT !.fault = TRUE]

NoResponse == Response("none", 0, EmptyObj, 0, EmptyObj)

\* ------------------------------------------------------- listing registry
ListingInit == /\ products = <<>>
               /\ now = 0
               /\ res = NoResponse

Tick == /\ now < MaxTime
        /\ now' = now + 1
        /\ UNCHANGED <<products, res>>
        /\ UNCHANGED cartVars

\* POST /api/products
CreateProduct ==
    /\ \E body \in CreateBodies :
        LET parsed == insertProductSchema(body)
            id == NewObjectId
            secretKey == randomBytesHex(id)
            doc == newProductDoc(parsed.data, secretKey, id, now)
        IN  IF ~parsed.success
            THEN /\ res' = Response("Create", 0, EmptyObj, 400, Message("validation"))
                 /\ UNCHANGED products
            ELSE /\ Cardinality(DOMAIN products) < MaxProducts
                 /\ id <= MaxProducts
                 /\ products' = [i \in (DOMAIN products) \cup {id} |-> IF i = id THEN doc ELSE products[i]]
                 /\ res' = Response("Create", id, EmptyObj, 201, createProductResult(doc, secretKey))
    /\ UNCHANGED now
    /\ UNCHANGED cartVars

\* GET /api/products
ListProducts ==
    /\ \E category \in QueryCategories :
        \E r \in (IF category # "" /\ category # "all" THEN getProductsByCategory(category) ELSE getAllProducts) :
            res' = Response("List", 0, [category |-> category], 200, r)
    /\ UNCHANGED <<products, now>>
    /\ UNCHANGED cartVars

\* GET /api/products/:id
GetProductById ==
    /\ \E id \in RequestIds :
        res' = IF isValid(id) /\ Exists(id)
               THEN Response("GetById", id, EmptyObj, 200, toProduct(products[id]))
               ELSE Response("GetById", id, EmptyObj, 404, Message("Product not found"))
    /\ UNCHANGED <<products, now>>
    /\ UNCHANGED cartVars

\* PATCH /api/products/:id
UpdateProduct ==
    /\ \E id \in RequestIds, body \in PatchBodies :
        LET parsed == insertProductSchemaPartial(body)
            r == updateProduct(id, parsed.data)
        IN  IF ~parsed.success
            THEN /\ res' = Response("Update", id, EmptyObj, 400, Message("validation"))
                 /\ UNCHANGED products
            ELSE IF ~r.found
            THEN /\ res' = Response("Update", id, EmptyObj, 404, Message("Product not found"))
                 /\ products' = r.products
            ELSE /\ res' = Response("Update", id, EmptyObj, 200, r.product)
                 /\ products' = r.products
    /\ UNCHANGED now
    /\ UNCHANGED cartVars

\* POST /api/products/:id/mark-sold
MarkSold ==
    /\ \E id \in RequestIds, body \in SecretBodies :
        IF "secretKey" \notin DOMAIN body \/ body.secretKey = ""
        THEN /\ res' = Response("MarkSold", id, body, 400, Message("Secret key is required"))
             /\ UNCHANGED products
        ELSE IF ~isValid(id)
        THEN /\ res' = Response("MarkSold", id, body, 500, Message("Failed to mark product as sold"))
             /\ UNCHANGED products
        ELSE IF ~Exists(id)
        THEN /\ res' = Response("MarkSold", id, body, 404, Message("Product not found"))
             /\ UNCHANGED products
        ELSE IF products[id].secretKey # body.secretKey
        THEN /\ res' = Response("MarkSold", id, body, 403, Message("Invalid secret key"))
             /\ UNCHANGED products
        ELSE LET product == Assign(products[id], [status |-> "sold", soldAt |-> <<now>>])
             IN  /\ products' = [products EXCEPT ![id] = product]
                 /\ res' = Response("MarkSold", id, body, 200,
                                    [message |-> "Product marked as sold", product |-> toProduct(product)])
    /\ UNCHANGED now
    /\ UNCHANGED cartVars

\* DELETE /api/products/:id and GET /api/products/delete/:id, mark-sold generation
DeleteDisabled ==
    /\ \E id \in RequestIds, body \in SecretBodies :
        res' = Response("Delete", id, body, 403, Message("Deleting products is disabled"))
    /\ UNCHANGED <<products, now>>
    /\ UNCHANGED cartVars

\* DELETE /api/products/:id and GET /api/products/delete/:id, delete-key generation
DeleteWithKey ==
    /\ \E id \in RequestIds, body \in SecretBodies :
        IF "secretKey" \notin DOMAIN body \/ body.secretKey = ""
        THEN /\ res' = Response("DeleteWithKey", id, body, 400, Message("Delete key is required"))
             /\ UNCHANGED products
        ELSE LET r == deleteProduct(id, body.secretKey)
             IN  /\ products' = r.products
                 /\ res' = IF ~r.deleted
                           THEN Response("DeleteWithKey", id, body, 403, Message("Invalid product ID or delete key"))
                           ELSE Response("DeleteWithKey", id, body, 204, EmptyObj)
    /\ UNCHANGED now
    /\ UNCHANGED cartVars

\* ------------------------------------------------------------- cart routes
\* models/cart.js: the paths of cartSchema
cartSchemaPaths == {"userId", "items"}

\* The mongoose release the server runs with is not pinned by the sources.
\* Its defaults differ: 5.x sends a filter on an unknown path to the store and
\* ignores populate() of an unknown path; 6.x strips such a filter (strictQuery)
\* and rejects such a populate (strictPopulate); 7.x and later send the filter
\* and reject the populate.
MongooseReleases == {"v5", "v6", "v7"}

strictQuery == mongoose = "v6"

strictPopulate == mongoose \in {"v6", "v7"}

Sessions == {"s1", "s2"}

Listings == {"L1", "L2"}

AddBodies == {EmptyObj} \cup {[productId |-> l] : l \in Listings}

\* new Cart(obj) under the schema's strict mode: unknown paths are dropped,
\* items defaults to []
newCartDoc(obj, id) ==
    Assign(Assign([items |-> <<>>], Restrict(obj, (DOMAIN obj) \cap cartSchemaPaths)), [id |-> id])

\* Cart.findOne(filter): the position of the first matching document, 0 for null
findOne(filter) ==
    LET cast == IF strictQuery THEN Restrict(filter, (DOMAIN filter) \cap cartSchemaPaths) ELSE filter
        hits == {i \in DOMAIN carts : \A k \in DOMAIN cast : k \in DOMAIN carts[i] /\ carts[i][k] = cast[k]}
    IN  IF hits = {} THEN 0 ELSE CHOOSE i \in hits : \A j \in hits : i <= j

\* cart.products.find(...) then quantity += 1, or cart.products.push(...)
mergeProduct(list, productId) ==
    IF \E i \in DOMAIN list : list[i].productId = productId
    THEN LET first == CHOOSE i \in DOMAIN list :
                        /\ list[i].productId = productId
                        /\ \A j \in DOMAIN list : list[j].productId = productId => i <= j
         IN  [list EXCEPT ![first].quantity = @ + 1]
    ELSE Append(list, [productId |-> productId, quantity |-> 1])

\* a handler that appends to the schema's items path without looking first
addToCartPushItems(cart, productId) ==
    [threw |-> FALSE, cart |-> [cart EXCEPT !.items = Append(@, [productId |-> productId, quantity |-> 1])]]

\* the body of the add handler on the document it holds; cart.products is
\* undefined on a document whose schema has no such path, and .find throws
addToCart(cart, productId) ==
    IF "products" \notin DOMAIN cart
    THEN [threw |-> TRUE, cart |-> cart]
    ELSE [threw |-> FALSE, cart |-> [cart EXCEPT !.products = mergeProduct(@, productId)]]

KeepOthers(list, productId) ==
    LET Other(e) == e.productId # productId
    IN  SelectSeq(list, Other)

\* the body of the remove handler: cart.products.filter(...)
removeFromCart(cart, productId) ==
    IF "products" \notin DOMAIN cart
    THEN [threw |-> TRUE, cart |-> cart]
    ELSE [threw |-> FALSE, cart |-> [cart EXCEPT !.products = KeepOthers(@, productId)]]

\* the handler's promise rejected: no response is written by the handler
Threw(op, sessionId, arg) == Response(op, sessionId, arg, 0, Message("TypeError"))

\* the requests that may be in flight together
Callers == 1..MaxCallers

\* a request not yet made
IdleCall == [pc |-> "idle", op |-> "", sessionId |-> "", productId |-> "", found |-> 0,
             cart |-> EmptyObj, code |-> 0]

CartInit == /\ ListingInit
            /\ mongoose \in MongooseReleases
            /\ carts = <<>>
            /\ cartFor = <<>>
            /\ addCalls = [p \in Sessions \X Listings |-> 0]
            /\ cres = NoResponse
            /\ calls = [c \in Callers |-> IdleCall]

\* GET /api/cart/:sessionId
GetOrCreateCart ==
    /\ \E sessionId \in Sessions :
        LET found == findOne([sessionId |-> sessionId])
            id == Len(carts) + 1
            created == newCartDoc([sessionId |-> sessionId, products |-> <<>>], id)
        IN  IF found = 0
            THEN /\ Len(carts) < MaxCarts
                 /\ carts' = Append(carts, created)
                 /\ cartFor' = Append(cartFor, sessionId)
                 /\ cres' = Response("GetOrCreate", sessionId, EmptyObj, 200, created)
            ELSE /\ UNCHANGED <<carts, cartFor>>
                 /\ cres' = IF strictPopulate /\ "products" \notin cartSchemaPaths
                            THEN Threw("GetOrCreate", sessionId, EmptyObj)
                            ELSE Response("GetOrCreate", sessionId, EmptyObj, 200, carts[found])
    /\ UNCHANGED <<mongoose, addCalls, calls>>
    /\ UNCHANGED listingVars

\* POST /api/cart/:sessionId
AddItem ==
    /\ \E sessionId \in Sessions, body \in AddBodies :
        IF "productId" \notin DOMAIN body
        THEN /\ cres' = Response("AddItem", sessionId, body, 400, Message("productId is required"))
             /\ UNCHANGED <<carts, cartFor, addCalls>>
        ELSE LET found == findOne([sessionId |-> sessionId])
                 id == IF found = 0 THEN Len(carts) + 1 ELSE found
                 cart == IF found = 0 THEN newCartDoc([sessionId |-> sessionId, products |-> <<>>], id)
                         ELSE carts[found]
                 stored == IF found = 0 THEN Append(carts, cart) ELSE carts
                 r == addToCart(cart, body.productId)
             IN  /\ found = 0 => Len(carts) < MaxCarts
                 /\ addCalls[<<sessionId, body.productId>>] < MaxAdds
                 /\ addCalls' = [addCalls EXCEPT ![<<sessionId, body.productId>>] = @ + 1]
                 /\ cartFor' = IF found = 0 THEN Append(cartFor, sessionId) ELSE cartFor
                 /\ IF r.threw
                    THEN /\ carts' = stored
                         /\ cres' = Threw("AddItem", sessionId, body)
                    ELSE /\ carts' = [stored EXCEPT ![id] = r.cart]
                         /\ cres' = Response("AddItem", sessionId, body, 201, r.cart)
    /\ UNCHANGED <<mongoose, calls>>
    /\ UNCHANGED listingVars

\* DELETE /api/cart/:sessionId/:productId
RemoveItem ==
    /\ \E sessionId \in Sessions, productId \in Listings :
        LET found == findOne([sessionId |-> sessionId])
            arg == [productId |-> productId]
        IN  /\ addCalls' = [addCalls EXCEPT ![<<sessionId, productId>>] = 0]
            /\ UNCHANGED cartFor
            /\ IF found = 0
               THEN /\ cres' = Response("RemoveItem", sessionId, arg, 404, Message("Cart not found"))
                    /\ UNCHANGED carts
               ELSE LET r == removeFromCart(carts[found], productId)
                    IN  IF r.threw
                        THEN /\ cres' = Threw("RemoveItem", sessionId, arg)
                             /\ UNCHANGED carts
                        ELSE /\ carts' = [carts EXCEPT ![found] = r.cart]
                             /\ cres' = Response("RemoveItem", sessionId, arg, 200, r.cart)
    /\ UNCHANGED <<mongoose, calls>>
    /\ UNCHANGED listingVars

CartNext == \/ GetOrCreateCart
            \/ AddItem
            \/ RemoveItem

CartSpec == CartInit /\ [][CartNext]_vars

\* ------------------------------------- cart handlers interleaved at awaits
\* A handler runs from one await to the next without interruption; the store
\* operation it awaits (findOne, create, save) takes effect in one step, and
\* other handlers may run between two such steps.  pc names the awaited
\* operation.

\* the handler ends: it answers with code, or rejects (code 0)
Finish(call, code) == [call EXCEPT !.pc = "done", !.code = code]

\* after the document is in hand: the rest of the handler up to its next await
afterCart(call, cart, found) ==
    LET held == [call EXCEPT !.found = found, !.cart = cart]
    IN  CASE call.op = "GetOrCreate" -> Finish(held, 200)
          [] call.op = "AddItem" ->
                LET r == addToCart(cart, call.productId)
                IN  IF r.threw THEN Finish(held, 0) ELSE [held EXCEPT !.pc = "save", !.cart = r.cart]
          [] call.op = "RemoveItem" ->
                LET r == removeFromCart(cart, call.productId)
                IN  IF r.threw THEN Finish(held, 0) ELSE [held EXCEPT !.pc = "save", !.cart = r.cart]

\* a request arrives and its handler runs up to its first await
BeginCall(c) ==
    /\ calls[c].pc = "idle"
    /\ \E op \in {"GetOrCreate", "AddItem", "RemoveItem"}, sessionId \in Sessions, body \in AddBodies :
        LET productId == IF "productId" \in DOMAIN body THEN body.productId ELSE ""
            call == [IdleCall EXCEPT !.op = op, !.sessionId = sessionId, !.productId = productId]
        IN  /\ op = "RemoveItem" => productId # ""
            /\ op = "GetOrCreate" => productId = ""
            /\ calls' = [calls EXCEPT ![c] = IF op = "AddItem" /\ productId = ""
                                             THEN Finish(call, 400)
                                             ELSE [call EXCEPT !.pc = "findOne"]]
    /\ UNCHANGED <<mongoose, carts, cartFor, addCalls, cres>>
    /\ UNCHANGED listingVars

\* the store operation a handler awaits completes and the handler runs on
Resume(c) ==
    LET call == calls[c]
    IN  /\ call.pc \in {"findOne", "create", "save"}
        /\ CASE call.pc = "findOne" ->
                    LET found == findOne([sessionId |-> call.sessionId])
                    IN  /\ UNCHANGED <<carts, cartFor>>
                        /\ calls' = [calls EXCEPT ![c] =
                                IF found = 0
                                THEN IF call.op = "RemoveItem" THEN Finish(call, 404)
                                     ELSE [call EXCEPT !.pc = "create"]
                                ELSE IF call.op = "GetOrCreate" /\ strictPopulate /\ "products" \notin cartSchemaPaths
                                THEN Finish(call, 0)
                                ELSE afterCart(call, carts[found], found)]
             [] call.pc = "create" ->
                    LET id == Len(carts) + 1
                        created == newCartDoc([sessionId |-> call.sessionId, products |-> <<>>], id)
                    IN  /\ Len(carts) < MaxCarts
                        /\ carts' = Append(carts, created)
                        /\ cartFor' = Append(cartFor, call.sessionId)
                        /\ calls' = [calls EXCEPT ![c] = afterCart(call, created, id)]
             [] call.pc = "save" ->
                    /\ carts' = [carts EXCEPT ![call.found] = call.cart]
                    /\ UNCHANGED cartFor
                    /\ calls' = [calls EXCEPT ![c] = Finish(call, IF call.op = "AddItem" THEN 201 ELSE 200)]
        /\ UNCHANGED <<mongoose, addCalls, cres>>
        /\ UNCHANGED listingVars

ConcNext == \E c \in Callers : BeginCall(c) \/ Resume(c)

ConcSpec == CartInit /\ [][ConcNext]_vars

\* ------------------------------------------- the registry, carts untouched
Init == /\ ListingInit
        /\ mongoose = "v7"
        /\ carts = <<>>
        /\ cartFor = <<>>
        /\ addCalls = [p \in Sessions \X Listings |-> 0]
        /\ cres = NoResponse
        /\ calls = [c \in Callers |-> IdleCall]

Next == \/ Tick
        \/ CreateProduct
        \/ ListProducts
        \/ GetProductById
        \/ UpdateProduct
        \/ MarkSold
        \/ DeleteDisabled
        \/ DeleteWithKey

Spec == Init /\ [][Next]_vars

\* ------------------------------- mutating requests whose store call fails
\* POST /api/products when product.save() rejects: createProduct's catch
\* throws "Failed to create product", which the route's catch answers as 400
CreateProductStoreFails ==
    /\ \E body \in CreateBodies :
        /\ insertProductSchema(body).success
        /\ res' = Failed("Create", 0, EmptyObj, 400, Message("Failed to create product"))
    /\ UNCHANGED <<products, now>>
    /\ UNCHANGED cartVars

\* PATCH /api/products/:id when findByIdAndUpdate rejects: updateProduct's
\* catch returns undefined, which the route answers as not found
UpdateProductStoreFails ==
    /\ \E id \in RequestIds, body \in PatchBodies :
        /\ insertProductSchemaPartial(body).success
        /\ isValid(id)
        /\ res' = Failed("Update", id, EmptyObj, 404, Message("Product not found"))
    /\ UNCHANGED <<products, now>>
    /\ UNCHANGED cartVars

\* POST /api/products/:id/mark-sold when findById or product.save() rejects:
\* the route's catch answers 500
MarkSoldStoreFails ==
    /\ \E id \in RequestIds, body \in SecretBodies :
        /\ "secretKey" \in DOMAIN body /\ body.secretKey # ""
        /\ res' = Failed("MarkSold", id, body, 500, Message("Failed to mark product as sold"))
    /\ UNCHANGED <<products, now>>
    /\ UNCHANGED cartVars

FaultNext == \/ Tick
             \/ CreateProduct
             \/ UpdateProduct
             \/ MarkSold
             \/ CreateProductStoreFails
             \/ UpdateProductStoreFails
             \/ MarkSoldStoreFails

FaultSpec == Init /\ [][FaultNext]_vars

\* --------------------------------- List over every store of a few listings
\* a listing as Create stores it at time t and, when sold, as MarkSold with
\* its secret leaves it at that same time
StoredListing(id, category, status, t) ==
    Assign(newProductDoc(insertProductSchema(ValidBody(category)).data, randomBytesHex(id), id, t),
           IF status = "sold" THEN [status |-> "sold", soldAt |-> <<t>>] ELSE EmptyObj)

\* the stores of at most MaxListed listings, created in id order
SortInit ==
    /\ \E n \in 0..MaxListed :
         \E cat \in [1..n -> {"textbooks", "other"}], st \in [1..n -> Statuses], ts \in [1..n -> 0..MaxTime] :
            /\ \A i, j \in 1..n : i < j => ts[i] <= ts[j]
            /\ products = [i \in 1..n |-> StoredListing(i, cat[i], st[i], ts[i])]
            /\ now = IF n = 0 THEN 0 ELSE ts[n]
    /\ res = NoResponse
    /\ mongoose = "v7"
    /\ carts = <<>>
    /\ cartFor = <<>>
    /\ addCalls = [p \in Sessions \X Listings |-> 0]
    /\ cres = NoResponse
    /\ calls = [c \in Callers |-> IdleCall]

SortNext == ListProducts

SortSpec == SortInit /\ [][SortNext]_vars

\* ------------------------------------------------ claims on the registry
MarkSoldStep == res'.op = "MarkSold" /\ now' = now

UpdateStep == res'.op = "Update" /\ now' = now

Supplied(arg, secret) == "secretKey" \in DOMAIN arg /\ arg.secretKey = secret

\* C1: once a listing has status sold, no later operation leaves it with
\* status available (status only moves available -> sold).
C1_StatusNeverReverts ==
    [][\A id \in DOMAIN products :
          products[id].status = "sold" => (id \in DOMAIN products' /\ products'[id].status = "sold")]_vars

\* C2: MarkSold on an existing listing answers Forbidden and leaves status and
\* soldAt alone for every supplied secret other than the stored one (an empty
\* or missing one included), sets status sold and soldAt to the current time
\* for the stored one, and a listing becomes sold only by a MarkSold call that
\* presented the secret its Create returned.
C2_MarkSoldGate ==
    [][/\ (MarkSoldStep /\ Exists(res'.id)) =>
            IF Supplied(res'.arg, products[res'.id].secretKey)
            THEN /\ products'[res'.id].status = "sold"
                 /\ products'[res'.id].soldAt = <<now>>
            ELSE /\ res'.code = 403
                 /\ products'[res'.id].status = products[res'.id].status
                 /\ products'[res'.id].soldAt = products[res'.id].soldAt
       /\ \A id \in DOMAIN products' :
            (products'[id].status = "sold" /\ (id \notin DOMAIN products \/ products[id].status # "sold"))
                => (MarkSoldStep /\ res'.id = id /\ Supplied(res'.arg, randomBytesHex(id)))]_vars

\* C3: an Update that passes validation leaves every listing's status, soldAt
\* and secret as they were, so the stored secret is always the one Create
\* returned.
C3_UpdateKeepsStatusSoldAtSecret ==
    [][/\ UpdateStep =>
            \A id \in DOMAIN products :
                /\ products'[id].status = products[id].status
                /\ products'[id].soldAt = products[id].soldAt
                /\ products'[id].secretKey = products[id].secretKey
       /\ \A id \in DOMAIN products' : products'[id].secretKey = randomBytesHex(id)]_vars

\* C4: every stored listing has soldAt non-null exactly when its status is
\* sold, and Create stores status available with soldAt null.
C4_SoldAtIffSold ==
    /\ \A id \in DOMAIN products : (products[id].soldAt # NullDate) <=> (products[id].status = "sold")
    /\ (res.op = "Create" /\ res.code = 201) =>
            (res.body.status = "available" /\ res.body.soldAt = NullDate)

\* C5: the values List, GetById, Update and MarkSold return never contain the
\* secret; only the return value of the Create that made a listing does, and
\* it holds that listing's stored secret.
C5_SecretOnlyInCreateResult ==
    /\ (res.op \in {"GetById", "Update"} /\ res.code = 200) => "secretKey" \notin DOMAIN res.body
    /\ (res.op = "MarkSold" /\ res.code = 200) =>
            ("secretKey" \notin DOMAIN res.body /\ "secretKey" \notin DOMAIN res.body.product)
    /\ res.op = "List" => \A i \in DOMAIN res.body : "secretKey" \notin DOMAIN res.body[i]
    /\ (res.op = "Create" /\ res.code = 201) =>
            ("secretKey" \in DOMAIN res.body /\ res.body.secretKey = products[res.id].secretKey)

\* a sold listing has just been returned by MarkSold
C5_Witness == res.op = "MarkSold" /\ res.code = 200 /\ res.body.product.status = "sold"

\* C6: List, filtered by category or not, returns exactly the matching
\* listings, every available one before every sold one, and within a status
\* newest createdAt first.
C6_ListOrder ==
    res.op = "List" =>
        LET b == res.body
            all == res.arg.category = "" \/ res.arg.category = "all"
        IN  /\ {b[i].id : i \in DOMAIN b} = {id \in DOMAIN products : all \/ products[id].category = res.arg.category}
            /\ \A i, j \in DOMAIN b : i # j => b[i].id # b[j].id
            /\ \A i, j \in DOMAIN b :
                 i < j => /\ ~(b[i].status = "sold" /\ b[j].status = "available")
                          /\ b[i].status = b[j].status => b[i].createdAt[1] >= b[j].createdAt[1]

\* List has returned two available listings, the newer first, ahead of a sold
\* one that is newer than both
C6_Witness ==
    /\ res.op = "List"
    /\ Len(res.body) = 3
    /\ res.body[1].status = "available"
    /\ res.body[2].status = "available"
    /\ res.body[3].status = "sold"
    /\ res.body[1].createdAt[1] > res.body[2].createdAt[1]
    /\ res.body[3].createdAt[1] >= res.body[1].createdAt[1]
    /\ res.body[1].id > res.body[2].id

\* C10: with deletion disabled, Delete reports failure for every id and every
\* secret, the listing's own secret included, and no step removes a listing.
C10_DeleteDisabled ==
    [][/\ res'.op \in {"Delete", "DeleteWithKey"} => res'.code >= 400
       /\ (DOMAIN products) \subseteq (DOMAIN products')]_vars

\* Delete has been asked for an existing listing with that listing's secret
C10_Witness ==
    /\ res.op = "DeleteWithKey"
    /\ Exists(res.id)
    /\ Supplied(res.arg, products[res.id].secretKey)
    /\ res.code = 403

\* --------------------------------------------------- claims on the carts
\* the entries a stored cart document holds, under either name of the path
CartEntries(doc) ==
    (IF "items" \in DOMAIN doc THEN doc.items ELSE <<>>)
        \o (IF "products" \in DOMAIN doc THEN doc.products ELSE <<>>)

EntriesFor(doc, listing) ==
    LET Same(e) == e.productId = listing
    IN  SelectSeq(CartEntries(doc), Same)

\* the cart documents made for a session
CartsOf(sessionId) == {i \in DOMAIN carts : cartFor[i] = sessionId}

\* C7: after n >= 1 sequential AddItem(session, L) calls from a cart without
\* L, the session's cart holds exactly one entry for L, of quantity n.
C7_AddItemCounts ==
    \A s \in Sessions, l \in Listings :
        addCalls[<<s, l>>] >= 1 =>
            \E i \in CartsOf(s) : EntriesFor(carts[i], l) = <<[productId |-> l, quantity |-> addCalls[<<s, l>>]]>>

C9_RemoveItem ==
    [][cres'.op = "RemoveItem" =>
          IF CartsOf(cres'.id) = {}
          THEN cres'.code = 404 /\ carts' = carts
          ELSE /\ cres'.code = 200
               /\ Len(carts') = Len(carts)
               /\ \A i \in CartsOf(cres'.id) :
                    CartEntries(carts'[i]) = KeepOthers(CartEntries(carts[i]), cres'.arg.productId)]_vars

\* C11: MarkSold answers not found, and changes no stored listing, whenever
\* the id is malformed or matches no listing, whatever secret is supplied: not
\* found comes before any outcome that depends on the secret. Stated here for
\* the calls that do supply a non-empty secret.
C11_MarkSoldNotFoundFirst ==
    [][(/\ MarkSoldStep
        /\ ~(isValid(res'.id) /\ Exists(res'.id))
        /\ "secretKey" \in DOMAIN res'.arg
        /\ res'.arg.secretKey # "") =>
            (res'.code = 404 /\ products' = products)]_vars

\* ---------------------------------------- claims on interleaved handlers
\* C12: there is at most one cart per session id, also when two first-access
\* cart operations for a session without a cart interleave between their find
\* and create steps.
C12_OneCartPerSession ==
    \A s \in Sessions : Cardinality(CartsOf(s)) <= 1

\* two different requests AddItem(session, L) for the same session and
\* listing, both finished
BothAdded(c1, c2) ==
    /\ c1 # c2
    /\ calls[c1].pc = "done" /\ calls[c2].pc = "done"
    /\ calls[c1].op = "AddItem" /\ calls[c2].op = "AddItem"
    /\ calls[c1].productId # ""
    /\ calls[c1].sessionId = calls[c2].sessionId
    /\ calls[c1].productId = calls[c2].productId

\* the state in which one increment is lost: both requests answered 201 and
\* the cart they saved holds L with quantity 1
C13_LostIncrement ==
    \E c1, c2 \in Callers :
        /\ BothAdded(c1, c2)
        /\ calls[c1].code = 201 /\ calls[c2].code = 201
        /\ \E i \in DOMAIN carts :
            EntriesFor(carts[i], calls[c1].productId) =
                <<[productId |-> calls[c1].productId, quantity |-> 1]>>

\* no behaviour of the interleaved handlers reaches the lost-increment state
C13_NoLostIncrement == ~C13_LostIncrement

\* C13: two concurrent AddItem(session, L) calls both complete successfully
\* and leave an entry for L in the session's cart, whether its quantity grew
\* by two or, one increment being lost to the interleaving, by only one.
C13_ConcurrentAddsComplete ==
    \A c1, c2 \in Callers :
        BothAdded(c1, c2) =>
            /\ calls[c1].code = 201 /\ calls[c2].code = 201
            /\ \E i \in CartsOf(calls[c1].sessionId) :
                EntriesFor(carts[i], calls[c1].productId) # <<>>

\* ------------------------------------------------- claims on store failure
\* the answers that report success or not found
SuccessOrNotFound == {200, 201, 204, 404}

\* C14: when the store fails during Create, Update or MarkSold, the caller
\* gets a failure that is neither a success nor not found, and no stored
\* listing is changed.
C14_StoreFailureReported ==
    [][res'.fault => (products' = products /\ res'.code \notin SuccessOrNotFound)]_vars

====
